---------------------------- MODULE Spec2Model ----------------------------
(***************************************************************************)
(* SofIA multi-platform webhook pipeline.                                  *)
(*                                                                         *)
(*   receiver  : src/app.py            (Flask routes, signature check,     *)
(*                                      extraction, dispatch to Celery)    *)
(*   worker    : src/celery_worker.py  (process_ai_response, the lru_cache *)
(*                                      in front of Gemini, MetaMessenger) *)
(*                                                                         *)
(* Strings are sequences of tokens (a token is a character or an atomic    *)
(* group of characters); a dictionary key "k" is the one-token string      *)
(* <<"k">>.  Requests are those the route's view function receives.        *)
(***************************************************************************)
EXTENDS Integers, Sequences, FiniteSets, TLC

(***************************************************************************)
(* Bounds of the model.                                                    *)
(***************************************************************************)
\* POST requests the receiver handles in one behaviour.
MaxPosts == 2
\* POST requests handled in one behaviour of the receiver taken alone.
MaxReceived == 1
\* Tasks the worker process executes at the same time (thread pool size).
Concurrency == 2
\* generate_cached_response calls made for prompts of other conversations.
MaxOther == 1
\* Runs of the clear_cache maintenance task.
MaxClears == 1

(***************************************************************************)
(* Program constants.                                                      *)
(***************************************************************************)
\* @celery_app.task(max_retries=3)
max_retries == 3
\* @lru_cache(maxsize=128)
maxsize == 128
\* send_message: if retry_count < 3
SEND_RETRY_LIMIT == 3
\* send_message: if len(message) > 4000
MAX_MESSAGE_LEN == 4000
\* send_message: message[:3997] + "..."
TRUNCATE_AT == 3997
\* PromptBuilder.build: [:500]
MAX_USER_LEN == 500

(***************************************************************************)
(* Python values.  Every value is a record of the same shape, so that any  *)
(* two values can be compared: t is the type tag, s the tokens of a str,   *)
(* n the number (or 0/1 of a bool), l the items of a list, d the           *)
(* <<key, value>> pairs of a dict, e the class of a raised exception.      *)
(***************************************************************************)
PyVal(t, s, n, l, d, e) == [t |-> t, s |-> s, n |-> n, l |-> l, d |-> d, e |-> e]
None == PyVal("null", <<>>, 0, <<>>, {}, "")
PyStr(s) == PyVal("str", s, 0, <<>>, {}, "")
PyNum(n) == PyVal("num", <<>>, n, <<>>, {}, "")
PyList(l) == PyVal("list", <<>>, 0, l, {}, "")
PyDict(d) == PyVal("dict", <<>>, 0, <<>>, d, "")
Raise(e) == PyVal("exc", <<>>, 0, <<>>, {}, e)
IsExc(v) == v.t = "exc"

\* bool(v)
Truthy(v) ==
    CASE v.t = "null" -> FALSE
      [] v.t = "num" -> v.n # 0
      [] v.t = "str" -> v.s # <<>>
      [] v.t = "list" -> v.l # <<>>
      [] v.t = "dict" -> v.d # {}
      [] OTHER -> FALSE

HasKey(v, k) == \E p \in v.d : p[1] = k
Lookup(v, k) == (CHOOSE p \in v.d : p[1] = k)[2]

\* sub occurs in s as a contiguous run of tokens (str.__contains__).
IsSubstring(sub, s) ==
    \E i \in 0..(Len(s) - Len(sub)) :
        \A j \in 1..Len(sub) : s[i + j] = sub[j]

\* v.get(k, default): only a dict has the method.
Get(v, k, default) ==
    IF IsExc(v) THEN v
    ELSE IF v.t = "dict" THEN (IF HasKey(v, k) THEN Lookup(v, k) ELSE default)
    ELSE Raise("AttributeError")

\* v[k] for a string key k.
Item(v, k) ==
    IF IsExc(v) THEN v
    ELSE IF v.t = "dict" THEN (IF HasKey(v, k) THEN Lookup(v, k) ELSE Raise("KeyError"))
    ELSE Raise("TypeError")

\* v[0]
Index0(v) ==
    IF IsExc(v) THEN v
    ELSE CASE v.t = "list" -> IF v.l # <<>> THEN v.l[1] ELSE Raise("IndexError")
           [] v.t = "str" -> IF v.s # <<>> THEN PyStr(<<v.s[1]>>) ELSE Raise("IndexError")
           [] v.t = "dict" -> Raise("KeyError")
           [] OTHER -> Raise("TypeError")

\* k in v, as a boolean or a raised exception.
Contains(k, v) ==
    IF IsExc(v) THEN v
    ELSE CASE v.t = "dict" -> PyNum(IF HasKey(v, k) THEN 1 ELSE 0)
           [] v.t = "list" ->
                PyNum(IF \E i \in 1..Len(v.l) : v.l[i] = PyStr(<<k>>) THEN 1 ELSE 0)
           [] v.t = "str" -> PyNum(IF IsSubstring(<<k>>, v.s) THEN 1 ELSE 0)
           [] OTHER -> Raise("TypeError")

\* The items a for loop visits, or the exception iter(v) raises.
Iterate(v) ==
    IF IsExc(v) THEN v
    ELSE CASE v.t = "list" -> v
           [] v.t = "str" -> PyList([i \in 1..Len(v.s) |-> PyStr(<<v.s[i]>>)])
           [] v.t = "dict" ->
                LET keys == {p[1] : p \in v.d}
                    order == CHOOSE f \in [1..Cardinality(keys) -> keys] :
                                 \A i, j \in 1..Cardinality(keys) : i # j => f[i] # f[j]
                IN  PyList([i \in 1..Cardinality(keys) |-> PyStr(<<order[i]>>)])
           [] OTHER -> Raise("TypeError")

(***************************************************************************)
(* 4. Security functions (src/app.py).                                     *)
(***************************************************************************)
\* A digest that does not depend on the key.
Hmac_keyless(secret, body) == [kind |-> "hex", key |-> "", body |-> body]

\* hmac.new(secret, body, sha256).hexdigest(): an abstract MAC, injective in
\* the key and in the signed bytes.
Hmac(secret, body) == [kind |-> "hex", key |-> secret, body |-> body]

\* A comparison that accepts every pair of ASCII digests.
compare_digest_any(a, b) ==
    IF a.kind = "nonascii" \/ b.kind = "nonascii" THEN Raise("TypeError")
    ELSE PyNum(1)

\* hmac.compare_digest(a, b): str arguments must be ASCII, else TypeError.
compare_digest(a, b) ==
    IF a.kind = "nonascii" \/ b.kind = "nonascii" THEN Raise("TypeError")
    ELSE PyNum(IF a = b THEN 1 ELSE 0)

\* A verification that does not look at what the header value starts with.
verify_webhook_signature_any_scheme(request, secret, debug) ==
    IF secret = "" THEN debug
    ELSE LET is_valid == compare_digest(request.header.sig, Hmac(secret, request.data))
         IN  IF IsExc(is_valid) THEN FALSE ELSE is_valid.n = 1

\* verify_webhook_signature(request, secret) with app.debug = debug.
\* request.headers.get('X-Hub-Signature-256', '') is the record
\* [scheme, sig]: scheme is what the value starts with ("" when the header
\* is missing), sig is signature_header[7:].
verify_webhook_signature(request, secret, debug) ==
    IF secret = "" THEN debug
    ELSE IF request.header.scheme # "sha256=" THEN FALSE
    ELSE LET received_signature == request.header.sig
             expected_signature == Hmac(secret, request.data)
             is_valid == compare_digest(received_signature, expected_signature)
         IN  IF IsExc(is_valid) THEN FALSE ELSE is_valid.n = 1

(***************************************************************************)
(* 5. Message extractors (src/app.py).  An extractor returns the pair      *)
(* (from_id, message) or lets an exception escape (exc # "").             *)
(***************************************************************************)
Pair(from_id, message) == [exc |-> "", from_id |-> from_id, message |-> message]
Escapes(e) == [exc |-> e, from_id |-> None, message |-> None]
NoMessage == Pair(None, None)

\* except (KeyError, IndexError, TypeError): fall through to return None, None.
ExtractorCatches(e) == e \in {"KeyError", "IndexError", "TypeError"}

Caught(e) == IF ExtractorCatches(e) THEN NoMessage ELSE Escapes(e)

\* f"[IMAGEM] {caption}"
ImageText(caption) ==
    PyStr(<<"[IMAGEM] ">> \o (IF caption.t = "str" THEN caption.s ELSE <<"<repr>">>))

AudioText == PyStr(<<"[ÁUDIO RECEBIDO]">>)

\* An extractor that answers an image without a caption with the bare tag.
WhatsAppMessageObj_any_image(message_obj) ==
    LET from_id == Get(message_obj, "from", None)
        msg_type == Get(message_obj, "type", None)
    IN  IF msg_type = PyStr(<<"text">>)
        THEN Pair(from_id, Item(Item(message_obj, "text"), "body"))
        ELSE IF msg_type = PyStr(<<"image">>)
        THEN LET image == Get(message_obj, "image", PyDict({}))
             IN  Pair(from_id, ImageText(Get(image, "caption", PyStr(<<>>))))
        ELSE IF msg_type = PyStr(<<"audio">>) THEN Pair(from_id, AudioText)
        ELSE NoMessage

WhatsAppMessageObj(message_obj) ==
    LET from_id == Get(message_obj, "from", None)
        msg_type == Get(message_obj, "type", None)
    IN  IF IsExc(from_id) THEN Caught(from_id.e)
        ELSE IF msg_type = PyStr(<<"text">>)
        THEN LET body == Item(Item(message_obj, "text"), "body")
             IN  IF IsExc(body) THEN Caught(body.e) ELSE Pair(from_id, body)
        ELSE IF msg_type = PyStr(<<"image">>)
        THEN LET image == Get(message_obj, "image", PyDict({}))
                 has == Contains("caption", image)
             IN  IF IsExc(has) THEN Caught(has.e)
                 ELSE IF has.n = 1
                 THEN LET caption == Item(image, "caption")
                      IN  IF IsExc(caption) THEN Caught(caption.e)
                          ELSE Pair(from_id, ImageText(caption))
                 ELSE IF msg_type = PyStr(<<"audio">>) THEN Pair(from_id, AudioText)
                 ELSE NoMessage
        ELSE IF msg_type = PyStr(<<"audio">>) THEN Pair(from_id, AudioText)
        ELSE NoMessage

extract_whatsapp_message(data) ==
    LET entry == Get(data, "entry", None)
    IN  IF IsExc(entry) THEN Caught(entry.e)
        ELSE IF ~Truthy(entry) THEN NoMessage
        ELSE LET value == Item(Index0(Item(Index0(Item(data, "entry")), "changes")), "value")
                 statuses == Contains("statuses", value)
                 messages == Contains("messages", value)
             IN  IF IsExc(statuses) THEN Caught(statuses.e)
                 ELSE IF statuses.n = 1 THEN NoMessage
                 ELSE IF IsExc(messages) THEN Caught(messages.e)
                 ELSE IF messages.n = 1
                 THEN LET message_obj == Index0(Item(value, "messages"))
                      IN  IF IsExc(message_obj) THEN Caught(message_obj.e)
                          ELSE WhatsAppMessageObj(message_obj)
                 ELSE NoMessage

\* One pass of the loop body: a returned pair, an escaping exception, or
\* "next" when no branch returns.
MessengerEvent(event) ==
    LET sender_id == Get(Get(event, "sender", PyDict({})), "id", None)
        hasMessage == Contains("message", event)
    IN  IF IsExc(sender_id) THEN [next |-> FALSE, ret |-> Caught(sender_id.e)]
        ELSE IF IsExc(hasMessage) THEN [next |-> FALSE, ret |-> Caught(hasMessage.e)]
        ELSE LET hasText == IF hasMessage.n = 1
                            THEN Contains("text", Item(event, "message")) ELSE PyNum(0)
             IN  IF IsExc(hasText) THEN [next |-> FALSE, ret |-> Caught(hasText.e)]
                 ELSE IF hasText.n = 1
                 THEN LET text == Item(Item(event, "message"), "text")
                      IN  [next |-> FALSE,
                           ret |-> IF IsExc(text) THEN Caught(text.e)
                                   ELSE Pair(sender_id, text)]
                 ELSE LET hasQuick == IF hasMessage.n = 1
                                      THEN Contains("quick_reply", Item(event, "message"))
                                      ELSE PyNum(0)
                      IN  IF IsExc(hasQuick) THEN [next |-> FALSE, ret |-> Caught(hasQuick.e)]
                          ELSE IF hasQuick.n = 1
                          THEN LET payload == Get(Item(Item(event, "message"), "quick_reply"),
                                                  "payload", PyStr(<<>>))
                               IN  [next |-> FALSE,
                                    ret |-> IF IsExc(payload) THEN Caught(payload.e)
                                            ELSE Pair(sender_id, payload)]
                          ELSE LET hasPostback == Contains("postback", event)
                               IN  IF hasPostback.n = 1
                                   THEN LET payload == Get(Item(event, "postback"),
                                                           "payload", PyStr(<<>>))
                                        IN  [next |-> FALSE,
                                             ret |-> IF IsExc(payload) THEN Caught(payload.e)
                                                     ELSE Pair(sender_id, payload)]
                                   ELSE [next |-> TRUE, ret |-> NoMessage]

RECURSIVE MessengerLoop(_)
MessengerLoop(events) ==
    IF events = <<>> THEN NoMessage
    ELSE LET r == MessengerEvent(Head(events))
         IN  IF r.next THEN MessengerLoop(Tail(events)) ELSE r.ret

extract_messenger_message(data) ==
    LET entry == Get(data, "entry", None)
    IN  IF IsExc(entry) THEN Caught(entry.e)
        ELSE IF ~Truthy(entry) THEN NoMessage
        ELSE LET messaging_events == Get(Index0(Item(data, "entry")), "messaging", PyList(<<>>))
                 events == Iterate(messaging_events)
             IN  IF IsExc(events) THEN Caught(events.e)
                 ELSE MessengerLoop(events.l)

\* MESSAGE_EXTRACTORS.get(platform) and the call of the extractor.
extract_message_data(data, platform) ==
    CASE platform = "whatsapp" -> extract_whatsapp_message(data)
      [] platform \in {"facebook", "instagram"} -> extract_messenger_message(data)
      [] OTHER -> NoMessage

(***************************************************************************)
(* 3 and 7. Celery set-up and the webhook routes (src/app.py).             *)
(***************************************************************************)
\* request.get_json(): the parsed body, or BadRequest for a body that is
\* not JSON.
get_json(request) ==
    IF request.data.kind = "json" THEN request.data.json ELSE Raise("BadRequest")

\* A stand-in that does the work of the task before it returns.
process_ai_response_inline(platform, from_id, message) ==
    [status |-> "processed_sync", model_calls |-> 1, deliveries |-> 1]

\* The synchronous stand-in defined when the Celery set-up raised: it logs
\* and returns; the number of model calls and deliveries it makes.
process_ai_response_fallback(platform, from_id, message) ==
    [status |-> "processed_sync", model_calls |-> 0, deliveries |-> 0]

\* process_ai_response.delay(...): the task message, or the broker's error.
delay(platform, from_id, message, broker_up) ==
    IF broker_up
    THEN [exc |-> "", task |-> <<[platform |-> platform, from_id |-> from_id,
                                  message |-> message]>>]
    ELSE [exc |-> "OperationalError", task |-> <<>>]

\* What the view function hands back, with what it did on the way: path names
\* the return statement reached, args is the extracted (platform, from_id,
\* message) when the extraction yielded both, task the task messages
\* published, sync the calls made before returning.
NoArgs == [platform |-> "", from_id |-> None, message |-> None]
NoCalls == [model_calls |-> 0, deliveries |-> 0]

Response(status, body, path, args, task, sync) ==
    [status |-> status, body |-> body, path |-> path, extracted |-> args # NoArgs,
     args |-> args, task |-> task, sync |-> sync]

\* A handler that lets the exception reach Flask, which answers 500.
handle_webhook_raises(args) ==
    Response(500, "Internal Server Error", "error", args, <<>>, NoCalls)

\* except Exception as e: log and return "OK", 200.
handle_webhook_except(args) == Response(200, "OK", "error", args, <<>>, NoCalls)

\* A log line that formats the message without slicing it.
NeverSliced(message) == TRUE

\* message[:50] inside the log line: only sequences can be sliced.
Sliceable(message) == message.t \in {"str", "list"}

\* handle_webhook, request.method == 'POST'.
handle_webhook_post(platform, request, celery_enabled, broker_up) ==
    LET Dispatch(args) ==
            IF ~Sliceable(args.message) THEN handle_webhook_except(args)
            ELSE IF celery_enabled
            THEN LET Sent(sent) ==
                         IF sent.exc # "" THEN handle_webhook_except(args)
                         ELSE Response(200, "OK", "dispatched", args, sent.task, NoCalls)
                 IN  Sent(delay(platform, args.from_id, args.message, broker_up))
            ELSE LET Ran(r) ==
                         Response(200, "OK", "sync", args, <<>>,
                                  [model_calls |-> r.model_calls,
                                   deliveries |-> r.deliveries])
                 IN  Ran(process_ai_response_fallback(platform, args.from_id,
                                                      args.message))
        Extracted(ex) ==
            IF ex.exc # "" THEN handle_webhook_except(NoArgs)
            ELSE IF Truthy(ex.from_id) /\ Truthy(ex.message)
            THEN Dispatch([platform |-> platform, from_id |-> ex.from_id,
                           message |-> ex.message])
            ELSE Response(200, "OK", "ignored", NoArgs, <<>>, NoCalls)
        Parsed(data) ==
            IF IsExc(data) THEN handle_webhook_except(NoArgs)
            ELSE IF ~Truthy(data) THEN Response(200, "OK", "empty", NoArgs, <<>>, NoCalls)
            ELSE Extracted(extract_message_data(data, platform))
    IN  Parsed(get_json(request))

\* A decorator that calls the handler without verifying the signature.
webhook_post_unverified(platform, request, env, broker_up) ==
    handle_webhook_post(platform, request, env.CELERY_ENABLED, broker_up)

\* require_webhook_verification(platform) around the route, for a POST.
webhook_post(platform, request, env, broker_up) ==
    LET secret == IF platform = "whatsapp" THEN env.WEBHOOK_SECRET_WHATSAPP
                  ELSE env.WEBHOOK_SECRET_FACEBOOK
    IN  IF ~verify_webhook_signature(request, secret, env.debug)
        THEN Response(403, "Invalid signature", "rejected", NoArgs, <<>>, NoCalls)
        ELSE handle_webhook_post(platform, request, env.CELERY_ENABLED, broker_up)

\* The GET branch of handle_webhook(platform, expected_token): the value
\* the view returns, (body, status).
handle_webhook_get(args, expected_token) ==
    IF args.mode = PyStr(<<"subscribe">>) /\ args.token = expected_token
    THEN [body |-> args.challenge, status |-> 200]
    ELSE [body |-> PyStr(<<"Token inválido">>), status |-> 403]

\* Flask makes the response of the value a view returns: a body of None is a
\* TypeError, which the errorhandler(500) of the application answers.
internal_error(rv) ==
    IF rv.body = None
    THEN [body |-> PyStr(<<"Erro interno do servidor">>), status |-> 500]
    ELSE rv

\* The three routes for a GET: the decorator verifies nothing, the route
\* passes the verification token of its platform.
webhook_get(platform, args, env) ==
    internal_error(handle_webhook_get(args, IF platform = "whatsapp"
                                            THEN env.VERIFY_TOKEN_WHATSAPP
                                            ELSE env.VERIFY_TOKEN_FACEBOOK))

(***************************************************************************)
(* Exception classes (requests.exceptions, celery.exceptions, builtins).   *)
(***************************************************************************)
ExcParent(cls) ==
    CASE cls \in {"HTTPError", "Timeout", "ConnectionError"} -> "RequestException"
      [] cls = "RequestException" -> "OSError"
      [] cls \in {"OSError", "ValueError", "AttributeError", "TypeError", "KeyError",
                  "IndexError", "ServerError", "Retry", "Reject",
                  "MaxRetriesExceededError", "OperationalError"} -> "Exception"
      [] OTHER -> "BaseException"

\* isinstance(e, cls) for an exception e of class exc.
RECURSIVE IsInstance(_, _)
IsInstance(exc, cls) ==
    IF exc = cls THEN TRUE
    ELSE IF exc = "BaseException" THEN FALSE
    ELSE IsInstance(ExcParent(exc), cls)

(***************************************************************************)
(* 6. PromptBuilder (src/celery_worker.py).                                *)
(***************************************************************************)
Whitespace == {" ", "\t", "\n"}

RECURSIVE LStrip(_)
LStrip(s) == IF s # <<>> /\ Head(s) \in Whitespace THEN LStrip(Tail(s)) ELSE s

RECURSIVE RStrip(_)
RStrip(s) ==
    IF s # <<>> /\ s[Len(s)] \in Whitespace THEN RStrip(SubSeq(s, 1, Len(s) - 1)) ELSE s

\* message.replace('\x00', '').strip()[:500], "Olá" when nothing is left,
\* appended to the system prompt formatted with the knowledge base.
build(message, knowledge) ==
    LET noNul == SelectSeq(message, LAMBDA c : c # "NUL")
        stripped == RStrip(LStrip(noNul))
        cut == SubSeq(stripped, 1, IF Len(stripped) < MAX_USER_LEN THEN Len(stripped)
                                   ELSE MAX_USER_LEN)
        safe_message == IF cut = <<>> THEN <<"Olá">> ELSE cut
    IN  <<"SYSTEM_PROMPT", knowledge, "PERGUNTA DO CLIENTE: ">> \o safe_message

\* hashlib.md5(prompt.encode()).hexdigest(): a digest, a function of the prompt.
get_hash(prompt) == <<"md5">> \o prompt

\* knowledge_base.get_formatted(): fixed for the life of the process.
Knowledge == "KNOWLEDGE"

(***************************************************************************)
(* 3. GeminiClient.generate_cached_response under functools.lru_cache.     *)
(* The cache is the sequence of its entries from least to most recently    *)
(* used.  Entries of prompts of other conversations carry OtherKey, and a  *)
(* run of n of them in a row is written as one item with that n.           *)
(***************************************************************************)
\* The lru key of a call: its arguments (self is the one gemini_client).
CacheKey(prompt_hash, prompt) == <<prompt_hash, prompt>>
KeyOf(message) ==
    LET prompt == build(message, Knowledge) IN CacheKey(get_hash(prompt), prompt)
OtherKey == CacheKey(<<"md5", "other">>, <<"other">>)

\* Position of the key in the cache, 0 on a miss.
lru_find(cache, key) ==
    IF \E i \in 1..Len(cache) : cache[i].key = key
    THEN CHOOSE i \in 1..Len(cache) : cache[i].key = key
    ELSE 0

RECURSIVE CacheSize(_)
CacheSize(cache) == IF cache = <<>> THEN 0 ELSE Head(cache).n + CacheSize(Tail(cache))

\* The cache without one entry of item i; two runs that become neighbours
\* are joined.
lru_remove(cache, i) ==
    IF cache[i].n > 1 THEN [cache EXCEPT ![i].n = cache[i].n - 1]
    ELSE LET before == SubSeq(cache, 1, i - 1)
             after == SubSeq(cache, i + 1, Len(cache))
         IN  IF before # <<>> /\ after # <<>>
                /\ before[Len(before)].key = OtherKey /\ after[1].key = OtherKey
             THEN SubSeq(before, 1, Len(before) - 1)
                  \o <<[after[1] EXCEPT !.n = after[1].n + before[Len(before)].n]>>
                  \o Tail(after)
             ELSE before \o after

\* The cache with the entry added at the most recently used end.
lru_push(cache, key, val) ==
    IF key = OtherKey /\ cache # <<>> /\ cache[Len(cache)].key = OtherKey
    THEN [cache EXCEPT ![Len(cache)].n = cache[Len(cache)].n + 1]
    ELSE Append(cache, [key |-> key, val |-> val, n |-> 1])

\* A hit that takes the entry out of the list and does not put it back.
lru_touch_removes(cache, i) == lru_remove(cache, i)

\* A hit moves the entry to the most recently used end.
lru_touch(cache, i) == lru_push(lru_remove(cache, i), cache[i].key, cache[i].val)

\* A cache without a capacity (maxsize=None): nothing is ever evicted.
lru_insert_unbounded(cache, key, val) == lru_push(cache, key, val)

\* A new entry after a miss: the oldest entry goes when the cache is full.
lru_insert(cache, key, val) ==
    IF CacheSize(cache) >= maxsize THEN lru_push(lru_remove(cache, 1), key, val)
    ELSE lru_push(cache, key, val)

\* A cache that keeps an entry for a call that raised.
lru_memoize_error(cache, key, exc) == lru_push(cache, key, exc)

\* The wrapped function raised exc: lru_cache stores nothing.
lru_raise(cache, key, exc) == cache

\* A wrapper that returns the result without keeping it.
lru_forget(cache, key, val) == cache

\* The wrapper after the wrapped call returned: a key stored meanwhile by
\* another call is left as it is.
lru_store(cache, key, val) ==
    IF lru_find(cache, key) # 0 THEN cache ELSE lru_insert(cache, key, val)

\* A wrapper without the cache_clear attribute: nothing is cleared.
cache_clear_missing(cache) == cache

\* generate_cached_response.cache_clear()
cache_clear(cache) == <<>>

\* The clear_cache task: the lru_cache wrapper has the cache_clear attribute
\* (the bound method hands the lookup on to it), so the cache is cleared;
\* the returned dict is the same in either branch.
NoResult == [cache_cleared |-> FALSE]
clear_cache(cache) ==
    [cache |-> cache_clear(cache), result |-> [cache_cleared |-> TRUE]]

(***************************************************************************)
(* Outgoing texts: body names the text, kept is the number of its          *)
(* characters present, dots tells whether "..." was appended.              *)
(***************************************************************************)
Text(body, n) == [body |-> body, kept |-> n, dots |-> FALSE]
TextLen(m) == m.kept + (IF m.dots THEN 3 ELSE 0)
NoText == Text("", 0)

\* What the model can return for a prompt (response.text).
Replies == {"reply_a", "reply_b"}
ReplyText(r) == IF r = "reply_a" THEN Text(r, 120) ELSE Text(r, 4321)

\* str.lower() on the tokens that have an upper case form here.
Lower(c) ==
    CASE c = "H" -> "h" [] c = "P" -> "p" [] c = "T" -> "t" [] c = "O" -> "o"
      [] c = "R" -> "r" [] c = "E" -> "e" [] c = "Ç" -> "ç" [] c = "M" -> "m"
      [] OTHER -> c

lower(s) == [i \in 1..Len(s) |-> Lower(s[i])]

AnyIn(words, s) == \E w \in words : IsSubstring(w, s)

\* The keyword lists of _get_fallback_message.
PriceWords ==
    {<<"p", "r", "e", "ç", "o">>, <<"v", "a", "l", "o", "r">>,
     <<"q", "u", "a", "n", "t", "o">>}
HoursWords ==
    {<<"h", "o", "r", "á", "r", "i", "o">>, <<"a", "b", "e", "r", "t", "o">>,
     <<"f", "u", "n", "c", "i", "o", "n", "a", "m", "e", "n", "t", "o">>}
ProductWords ==
    {<<"p", "r", "o", "d", "u", "t", "o">>, <<"t", "e", "m">>,
     <<"d", "i", "s", "p", "o", "n", "í", "v", "e", "l">>}

\* A matcher that tries the hours keywords before the price keywords.
get_fallback_message_hours_first(user_message) ==
    LET message_lower == lower(user_message)
    IN  IF AnyIn(HoursWords, message_lower) THEN Text("fallback_hours", 141)
        ELSE IF AnyIn(PriceWords, message_lower) THEN Text("fallback_price", 187)
        ELSE IF AnyIn(ProductWords, message_lower) THEN Text("fallback_product", 122)
        ELSE Text("fallback_generic", 203)

\* _get_fallback_message(user_message)
get_fallback_message(user_message) ==
    LET message_lower == lower(user_message)
    IN  IF AnyIn(PriceWords, message_lower) THEN Text("fallback_price", 187)
        ELSE IF AnyIn(HoursWords, message_lower) THEN Text("fallback_hours", 141)
        ELSE IF AnyIn(ProductWords, message_lower) THEN Text("fallback_product", 122)
        ELSE Text("fallback_generic", 203)

\* error_msg of the MaxRetriesExceededError handler.
error_msg == Text("error_msg", 143)

(***************************************************************************)
(* 5. MetaMessenger (src/celery_worker.py).                                *)
(***************************************************************************)
\* An entry that sends the text as it was given, whatever its length.
send_message_entry_untruncated(env, platform, to_id, message, retry_count) ==
    IF platform = "" \/ ~Truthy(to_id) \/ TextLen(message) = 0
    THEN [http |-> FALSE, message |-> message]
    ELSE [http |-> IF platform = "whatsapp" THEN env.whatsapp_config
                   ELSE env.facebook_config,
          message |-> message]

\* send_message up to the HTTP call: the validation, the truncation and
\* the configuration check of _send_whatsapp / _send_facebook.  http tells
\* whether requests.post is reached; without it the call returns False.
send_message_entry(env, platform, to_id, message, retry_count) ==
    IF platform = "" \/ ~Truthy(to_id) \/ TextLen(message) = 0
    THEN [http |-> FALSE, message |-> message]
    ELSE LET sent == IF TextLen(message) > MAX_MESSAGE_LEN
                     THEN [message EXCEPT !.kept = IF message.kept < TRUNCATE_AT
                                                   THEN message.kept ELSE TRUNCATE_AT,
                                          !.dots = TRUE]
                     ELSE message
             configured == IF platform = "whatsapp" THEN env.whatsapp_config
                           ELSE env.facebook_config
         IN  [http |-> configured, message |-> sent]

\* The except clauses of send_message, tried in the order written:
\* "recurse" calls send_message again with retry_count + 1, "false"
\* returns False, "propagate" lets the exception out.
send_message_except_no_retry(exc, retry_count) ==
    IF IsInstance(exc, "RequestException") THEN "false" ELSE "propagate"

send_message_except(exc, retry_count) ==
    IF IsInstance(exc, "RequestException") \/ IsInstance(exc, "Timeout")
    THEN IF retry_count < SEND_RETRY_LIMIT THEN "recurse" ELSE "false"
    ELSE IF IsInstance(exc, "HTTPError") THEN "false"
    ELSE "propagate"

\* What requests.post(...) followed by raise_for_status() can do.
HttpOutcomes == {"ok", "ConnectionError", "Timeout", "HTTPError"}

(***************************************************************************)
(* 7. The Celery task process_ai_response (src/celery_worker.py).          *)
(*                                                                         *)
(* A task record holds the task message (platform, from_id, message,       *)
(* retries = self.request.retries), the position of its execution          *)
(*   pc = "queued"      the message waits in the ai_responses queue        *)
(*        "generating"  model.generate_content is running                  *)
(*        "http"        requests.post of send_message is running           *)
(*        "done"        the last execution returned, no message is queued  *)
(* the state of the send_message call in progress (kind, out, retry_count, *)
(* lastExc; sendCalls and okCalls, the HTTP calls it made and those that   *)
(* succeeded), result['success'] / result['error'] of the last             *)
(* execution, and counts of what the task has done over all executions:    *)
(* httpCalls (requests.post),                                              *)
(* modelCalls (model.generate_content), genFails (generate_cached_response *)
(* raised), acks (send_message returned True), fallbackSends / errorSends  *)
(* (send_message called with the keyword fallback / with error_msg),       *)
(* genOK (generate_cached_response has returned a reply), ai_reply (the     *)
(* last reply it returned), cached (that reply was the value of the cache  *)
(* entry when the call returned), callsAfterOK (model calls since the      *)
(* first reply), dropped (the cache lost the entry since).                 *)
(***************************************************************************)
NewTask(args) ==
    [platform |-> args.platform, from_id |-> args.from_id, message |-> args.message,
     retries |-> 0, pc |-> "queued",
     kind |-> "", out |-> NoText, retry_count |-> 0, lastExc |-> "", sendCalls |-> 0,
     okCalls |-> 0, httpCalls |-> 0,
     success |-> FALSE, error |-> "", lastSend |-> "",
     modelCalls |-> 0, genFails |-> 0, acks |-> 0,
     fallbackSends |-> 0, errorSends |-> 0,
     genOK |-> FALSE, ai_reply |-> "", cached |-> FALSE,
     callsAfterOK |-> 0, dropped |-> FALSE]

\* The state of a send_message call is forgotten when the execution ends;
\* the counts of its HTTP calls stay until the next execution starts.
EndSend(task) ==
    [task EXCEPT !.kind = "", !.out = NoText, !.retry_count = 0, !.lastExc = ""]

\* return result
Finish(task, success, error) ==
    [EndSend(task) EXCEPT !.pc = "done", !.success = success, !.error = error]

\* The execution returns after self.retry published the task again.
Requeue(task, error) ==
    [EndSend(task) EXCEPT !.pc = "queued", !.retries = task.retries + 1,
                          !.success = FALSE, !.error = error]

\* Task.retry(exc=exc) of Celery for a task run by a worker: the task is
\* published again with retries + 1 and Retry is raised, unless that
\* exceeds max_retries: then exc is raised, or MaxRetriesExceededError
\* when no exc was given.
retry(request_retries, exc) ==
    IF request_retries + 1 > max_retries
    THEN [publish |-> FALSE,
          raise |-> IF exc # "" THEN exc ELSE "MaxRetriesExceededError"]
    ELSE [publish |-> TRUE, raise |-> "Retry"]

\* The except clauses of the task body, in the order written.
task_except(exc) ==
    IF IsInstance(exc, "MaxRetriesExceededError") THEN "max_retries_exceeded"
    ELSE IF IsInstance(exc, "Exception") THEN "unhandled"
    ELSE "propagate"

\* The test written with <= : the last execution asks for a retry as well.
CanRetryGenerationInclusive(retries) == retries <= max_retries

\* if self.request.retries < self.max_retries, after a failed generation
CanRetryGeneration(retries) == retries < max_retries

\* The test written with <= : a failed delivery in the last execution asks
\* for a retry as well.
CanRetryDeliveryInclusive(retries) == retries <= max_retries

\* if self.request.retries < self.max_retries, after a failed delivery
CanRetryDelivery(retries) == retries < max_retries

\* except MaxRetriesExceededError: the error message goes out through one
\* send_message call, whose result is not looked at.
BeginErrorSend(env, task) ==
    LET entry == send_message_entry(env, task.platform, task.from_id, error_msg, 0)
        t1 == [task EXCEPT !.errorSends = task.errorSends + 1]
    IN  IF entry.http
        THEN [t1 EXCEPT !.pc = "http", !.kind = "error", !.out = entry.message,
                        !.retry_count = 0, !.lastExc = "", !.sendCalls = 1,
                        !.httpCalls = task.httpCalls + 1,
                        !.error = "max_retries_exceeded"]
        ELSE Finish(t1, FALSE, "max_retries_exceeded")

\* An exception raised inside the task body reaches the outer handlers.
\* published: self.retry queued the task again before raising.
Raised(env, task, exc, published) ==
    IF task_except(exc) = "max_retries_exceeded" THEN BeginErrorSend(env, task)
    ELSE IF published THEN Requeue(task, exc)
    ELSE Finish(task, FALSE, exc)

\* A step 3 that asks for a retry whatever send_message returned.
AfterReplySend_retry_always(env, task, send_success) ==
    LET t1 == [task EXCEPT !.lastSend = IF send_success THEN "ok" ELSE "failed",
                           !.acks = task.acks + (IF send_success THEN 1 ELSE 0)]
    IN  IF CanRetryDelivery(task.retries)
        THEN LET r == retry(task.retries, "")
             IN  Raised(env, t1, r.raise, r.publish)
        ELSE Finish(t1, TRUE, "")

\* Step 3 of the task body after send_message returned send_success.
AfterReplySend(env, task, send_success) ==
    LET t1 == [task EXCEPT !.lastSend = IF send_success THEN "ok" ELSE "failed",
                           !.acks = task.acks + (IF send_success THEN 1 ELSE 0)]
    IN  IF ~send_success /\ CanRetryDelivery(task.retries)
        THEN LET r == retry(task.retries, "")
             IN  Raised(env, t1, r.raise, r.publish)
        ELSE Finish(t1, TRUE, "")

\* send_success = meta_messenger.send_message(platform, from_id, ai_reply)
BeginReplySend(env, task, ai_reply, kind) ==
    LET entry == send_message_entry(env, task.platform, task.from_id, ai_reply, 0)
        t1 == [task EXCEPT !.fallbackSends =
                               task.fallbackSends + (IF kind = "fallback" THEN 1 ELSE 0),
                           !.kind = kind, !.out = entry.message]
    IN  IF entry.http
        THEN [t1 EXCEPT !.pc = "http", !.retry_count = 0, !.lastExc = "",
                        !.sendCalls = 1, !.httpCalls = task.httpCalls + 1]
        ELSE AfterReplySend(env, t1, FALSE)

\* send_message returned result to the task body.
SendReturned(env, task, result) ==
    IF task.kind = "error"
    THEN Finish([task EXCEPT !.acks = task.acks + (IF result THEN 1 ELSE 0)],
                FALSE, "max_retries_exceeded")
    ELSE AfterReplySend(env, task, result)

\* requests.post / raise_for_status of the running send_message call ends
\* with outcome.
http_returns(env, task, outcome) ==
    IF outcome = "ok" THEN SendReturned(env, [task EXCEPT !.okCalls = task.okCalls + 1], TRUE)
    ELSE LET handler == send_message_except(outcome, task.retry_count)
             t1 == [task EXCEPT !.lastExc = outcome]
         IN  IF handler = "recurse"
             THEN LET entry == send_message_entry(env, task.platform, task.from_id,
                                                  task.out, task.retry_count + 1)
                  IN  IF entry.http
                      THEN [t1 EXCEPT !.retry_count = task.retry_count + 1,
                                      !.out = entry.message,
                                      !.sendCalls = task.sendCalls + 1,
                                      !.httpCalls = task.httpCalls + 1]
                      ELSE SendReturned(env, t1, FALSE)
             ELSE IF handler = "false" THEN SendReturned(env, t1, FALSE)
             ELSE Raised(env, t1, outcome, FALSE)

\* The inner except Exception of step 2: generate_cached_response raised exc.
generation_failed(env, task, exc) ==
    LET t1 == [task EXCEPT !.genFails = task.genFails + 1]
    IN  IF CanRetryGeneration(task.retries)
        THEN LET r == retry(task.retries, exc)
             IN  Raised(env, t1, r.raise, r.publish)
        ELSE BeginReplySend(env, t1, get_fallback_message(task.message.s), "fallback")

\* generate_cached_response returned ai_reply (from the cache or the model).
generation_returned(env, task, reply, cached) ==
    BeginReplySend(env, [task EXCEPT !.genOK = TRUE, !.ai_reply = reply,
                                     !.cached = cached],
                   ReplyText(reply), "reply")

(***************************************************************************)
(* Inputs: request bodies, signature headers, environments.                *)
(***************************************************************************)
Platforms == {"whatsapp", "facebook", "instagram"}

Body(json) == [kind |-> "json", json |-> json]
InvalidBody == [kind |-> "invalid", json |-> None]

\* WhatsApp Cloud API: entry[0].changes[0].value = value
WaPayload(value) ==
    PyDict({<<"entry", PyList(<<PyDict({<<"changes",
                PyList(<<PyDict({<<"value", value>>})>>)>>})>>)>>})
WaMessage(message_obj) == WaPayload(PyDict({<<"messages", PyList(<<message_obj>>)>>}))
WaText(from, body) ==
    WaMessage(PyDict({<<"from", PyStr(from)>>, <<"type", PyStr(<<"text">>)>>,
                      <<"text", PyDict({<<"body", body>>})>>}))
WaStatuses == WaPayload(PyDict({<<"statuses", PyList(<<PyDict({})>>)>>}))

\* Messenger: entry[0].messaging = events
MsgrPayload(events) == PyDict({<<"entry", PyList(<<PyDict({<<"messaging", events>>})>>)>>})
MsgrText(sender, text) ==
    PyDict({<<"sender", PyDict({<<"id", PyStr(sender)>>})>>,
            <<"message", PyDict({<<"text", PyStr(text)>>})>>})

Sender == <<"5", "5", "8", "4">>
Oi == <<"o", "i">>
OiPadded == <<" ", "o", "i">>
Horario == <<"H", "o", "r", "á", "r", "i", "o", "?">>

\* Bodies that carry a user message, one per platform shape.
MessageBodies ==
    {Body(WaText(Sender, PyStr(Oi))), Body(WaText(Sender, PyStr(OiPadded))),
     Body(MsgrPayload(PyList(<<MsgrText(Sender, Horario)>>)))}

\* Bodies without a user message, or that make the handler raise.
OtherBodies ==
    {InvalidBody, Body(None), Body(PyDict({})), Body(PyList(<<PyNum(1)>>)),
     Body(WaStatuses), Body(WaPayload(PyDict({}))),
     Body(WaText(Sender, PyNum(7))),
     Body(WaMessage(PyDict({<<"from", PyStr(Sender)>>, <<"type", PyStr(<<"audio">>)>>}))),
     Body(MsgrPayload(PyList(<<>>))),
     Body(PyDict({<<"entry", PyStr(<<"x">>)>>}))}

NoSig == [kind |-> "none", key |-> "", body |-> InvalidBody]
NoHeader == [scheme |-> "", sig |-> NoSig]
Signed(secret, body) == [scheme |-> "sha256=", sig |-> Hmac(secret, body)]

\* The X-Hub-Signature-256 values tried against a body: the platform's own
\* signature, and the ways a sender without the secret can get it wrong.
Headers(secret, body) ==
    {Signed(secret, body), NoHeader,
     [scheme |-> "sha1=", sig |-> Hmac(secret, body)],
     Signed("guess", body), Signed(secret, Body(None)),
     [scheme |-> "sha256=", sig |-> [kind |-> "nonascii", key |-> "", body |-> body]]}

SecretOf(env, platform) ==
    IF platform = "whatsapp" THEN env.WEBHOOK_SECRET_WHATSAPP
    ELSE env.WEBHOOK_SECRET_FACEBOOK

Requests(env, bodies) ==
    UNION {{[platform |-> p, header |-> h, data |-> b] :
                p \in Platforms,
                h \in UNION {Headers(SecretOf(env, q), b) : q \in Platforms}} :
           b \in bodies}

\* The requests of the platforms themselves: signed with the secret of the
\* route, or unsigned where no secret was agreed.
PlatformRequests(env, bodies) ==
    {q \in Requests(env, bodies) :
        q.header \in {Signed(SecretOf(env, q.platform), q.data), NoHeader}}

\* WhatsApp messages of the types the extractor tells apart.
WaTyped(type, fields) ==
    WaMessage(PyDict({<<"from", PyStr(Sender)>>, <<"type", PyStr(<<type>>)>>} \cup fields))
Caption == <<"f", "o", "t", "o">>
TypedBodies ==
    {Body(WaTyped("image", {<<"image", PyDict({<<"caption", PyStr(Caption)>>})>>})),
     Body(WaTyped("image", {<<"image", PyDict({<<"id", PyStr(<<"1">>)>>})>>})),
     Body(WaTyped("audio", {<<"audio", PyDict({<<"id", PyStr(<<"2">>)>>})>>})),
     Body(WaTyped("sticker", {<<"sticker", PyDict({<<"id", PyStr(<<"3">>)>>})>>})),
     Body(WaTyped("text", {<<"text", PyDict({<<"body", PyStr(Oi)>>})>>}))}

\* Messenger events of a second sender: one that carries nothing the
\* extractor looks for, a postback and a quick reply with and without a
\* payload.
Other == <<"7", "7">>
MsgrEvent(sender, fields) ==
    PyDict({<<"sender", PyDict({<<"id", PyStr(sender)>>})>>} \cup fields)
MsgrDelivery == MsgrEvent(Other, {<<"delivery", PyDict({})>>})
MsgrPostback(fields) == MsgrEvent(Other, {<<"postback", PyDict(fields)>>})
MsgrQuickReply(fields) ==
    MsgrEvent(Other, {<<"message", PyDict({<<"quick_reply", PyDict(fields)>>})>>})
Payload == {<<"payload", PyStr(<<"MENU">>)>>}

\* Messenger bodies with more than one event, or with an event that is not
\* a text message.
BatchBodies ==
    {Body(MsgrPayload(PyList(<<MsgrDelivery, MsgrText(Sender, Oi)>>))),
     Body(MsgrPayload(PyList(<<MsgrPostback({}), MsgrText(Sender, Oi)>>))),
     Body(MsgrPayload(PyList(<<MsgrQuickReply({}), MsgrText(Sender, Oi)>>))),
     Body(MsgrPayload(PyList(<<MsgrQuickReply(Payload), MsgrText(Sender, Oi)>>))),
     Body(MsgrPayload(PyList(<<MsgrDelivery, MsgrPostback(Payload)>>)))}

\* The query string of a GET: request.args.get(name) is None for a
\* parameter that is absent.
TokenFb == PyStr(<<"token_fb">>)
QueryArgs ==
    [mode : {None, PyStr(<<"subscribe">>), PyStr(<<"unsubscribe">>)},
     token : {None, PyStr(<<"token_wa">>), TokenFb, PyStr(<<"guess">>)},
     challenge : {None, PyStr(<<>>), PyStr(<<"1158201444">>)}]

\* The process environment after start-up.  validate_environment of app.py
\* has passed, so WEBHOOK_SECRET_WHATSAPP and VERIFY_TOKEN_WHATSAPP are set
\* (VERIFY_TOKEN_FACEBOOK is None when unset); model tells whether
\* gemini_client.model was initialised (GEMINI_API_KEY whether the key is
\* set: without it the model is not); *_config whether both values of the
\* platform's outbound configuration are set.
Env(debug, celery, secret_fb, token_fb, model, wa, fb) ==
    [debug |-> debug, CELERY_ENABLED |-> celery,
     WEBHOOK_SECRET_WHATSAPP |-> "secret_wa", WEBHOOK_SECRET_FACEBOOK |-> secret_fb,
     VERIFY_TOKEN_WHATSAPP |-> PyStr(<<"token_wa">>), VERIFY_TOKEN_FACEBOOK |-> token_fb,
     GEMINI_API_KEY |-> model, model |-> model,
     whatsapp_config |-> wa, facebook_config |-> fb]

\* validate_environment() of celery_worker.py: no required variable of the
\* worker is missing.
validate_environment(e) == e.GEMINI_API_KEY /\ e.whatsapp_config /\ e.facebook_config

\* The import of celery_worker.py: the result of validate_environment is
\* logged and the process goes on either way.
worker_init(e) == [is_valid |-> validate_environment(e), exits |-> FALSE]

Envs ==
    {Env(FALSE, TRUE, "secret_fb", TokenFb, TRUE, TRUE, TRUE),
     Env(FALSE, FALSE, "secret_fb", TokenFb, TRUE, TRUE, TRUE),
     Env(TRUE, TRUE, "", TokenFb, TRUE, TRUE, TRUE),
     Env(FALSE, TRUE, "", TokenFb, TRUE, TRUE, TRUE),
     Env(FALSE, TRUE, "secret_fb", None, TRUE, TRUE, TRUE),
     Env(FALSE, TRUE, "secret_fb", TokenFb, FALSE, TRUE, TRUE),
     Env(FALSE, TRUE, "secret_fb", TokenFb, TRUE, FALSE, TRUE)}

\* A cache that is full, with the entry of the message least recently used.
FullCache(message, reply) ==
    <<[key |-> KeyOf(message), val |-> reply, n |-> 1],
      [key |-> OtherKey, val |-> "other", n |-> maxsize - 1]>>

InitCaches == {<<>>, FullCache(Oi, "reply_b")}

(***************************************************************************)
(* State.                                                                  *)
(***************************************************************************)
VARIABLES
    env,        \* the environment the processes started with
    tasks,      \* the tasks dispatched so far, in the order of dispatch
    cache,      \* the lru_cache of generate_cached_response
    posts,      \* number of POST requests answered
    lastPost,   \* the last POST request and what it was answered with
    syncCalls,  \* model calls and deliveries made while answering requests
    others,     \* calls for prompts of other conversations so far
    clears,     \* runs of clear_cache so far
    lastClear,  \* what the last run of clear_cache returned
    gets,       \* number of GET requests answered
    lastGet     \* the last GET request and what it was answered with

vars == <<env, tasks, cache, posts, lastPost, syncCalls, others, clears, lastClear,
          gets, lastGet>>

NoRequest == [platform |-> "", header |-> NoHeader, data |-> InvalidBody]
NoPost ==
    [request |-> NoRequest, broker_up |-> TRUE, status |-> 0, body |-> "", path |-> "",
     extracted |-> FALSE, enqueued |-> 0, args |-> NoArgs]

NoGet ==
    [platform |-> "", args |-> [mode |-> None, token |-> None, challenge |-> None],
     status |-> 0, body |-> None]

Init ==
    /\ env \in Envs
    /\ tasks = <<>>
    /\ cache \in InitCaches
    /\ posts = 0
    /\ lastPost = NoPost
    /\ syncCalls = [model_calls |-> 0, deliveries |-> 0]
    /\ others = 0
    /\ clears = 0
    /\ lastClear = NoResult
    /\ gets = 0
    /\ lastGet = NoGet

Running == Cardinality({i \in 1..Len(tasks) : tasks[i].pc \in {"generating", "http"}})

\* A task whose generation succeeded loses its cache entry: newCache is the
\* cache after a clear or after a call that stored an entry.
MarkDropped(ts, newCache) ==
    [i \in 1..Len(ts) |->
        IF ts[i].genOK /\ ts[i].message.t = "str"
           /\ lru_find(newCache, KeyOf(ts[i].message.s)) = 0
        THEN [ts[i] EXCEPT !.dropped = TRUE] ELSE ts[i]]

(***************************************************************************)
(* Actions.                                                                *)
(***************************************************************************)
\* The receiver answers one POST to /webhook/<platform>.
Post(request, broker_up) ==
    /\ posts < MaxPosts
    /\ \E r \in {webhook_post(request.platform, request, env, broker_up)} :
           /\ tasks' = tasks \o [i \in 1..Len(r.task) |-> NewTask(r.task[i])]
           /\ lastPost' = [request |-> request, broker_up |-> broker_up,
                           status |-> r.status, body |-> r.body, path |-> r.path,
                           extracted |-> r.extracted, enqueued |-> Len(r.task),
                           args |-> r.args]
           /\ syncCalls' = [model_calls |-> syncCalls.model_calls + r.sync.model_calls,
                            deliveries |-> syncCalls.deliveries + r.sync.deliveries]
    /\ posts' = posts + 1
    /\ UNCHANGED <<env, cache, others, clears, lastClear, gets, lastGet>>

\* The receiver answers a GET on the route of platform.
HandshakeGet(platform, args) ==
    /\ posts + gets < MaxReceived
    /\ \E r \in {webhook_get(platform, args, env)} :
           lastGet' = [platform |-> platform, args |-> args,
                       status |-> r.status, body |-> r.body]
    /\ gets' = gets + 1
    /\ UNCHANGED <<env, tasks, cache, posts, lastPost, syncCalls, others, clears,
                   lastClear>>

\* A worker slot takes a queued task message and runs the task body up to
\* the first blocking call.
StartTask(i) ==
    /\ ~worker_init(env).exits
    /\ tasks[i].pc = "queued"
    /\ Running < Concurrency
    /\ LET t0 == [tasks[i] EXCEPT !.success = FALSE, !.error = "", !.lastSend = "",
                                  !.sendCalls = 0, !.okCalls = 0]
       IN  IF t0.message.t # "str"
           THEN /\ tasks' = [tasks EXCEPT ![i] = Raised(env, t0, "AttributeError", FALSE)]
                /\ cache' = cache
           ELSE LET key == KeyOf(t0.message.s)
                    at == lru_find(cache, key)
                IN  IF at # 0
                    THEN /\ cache' = lru_touch(cache, at)
                         /\ tasks' = [tasks EXCEPT ![i] =
                                         generation_returned(env, t0, cache[at].val,
                                                             TRUE)]
                    ELSE IF ~env.model
                    THEN /\ cache' = lru_raise(cache, key, "ValueError")
                         /\ tasks' = [tasks EXCEPT ![i] =
                                         generation_failed(env, t0, "ValueError")]
                    ELSE /\ cache' = cache
                         /\ tasks' = [tasks EXCEPT ![i] =
                                [t0 EXCEPT !.pc = "generating",
                                           !.modelCalls = t0.modelCalls + 1,
                                           !.callsAfterOK = t0.callsAfterOK
                                               + (IF t0.genOK THEN 1 ELSE 0)]]
    /\ UNCHANGED <<env, posts, lastPost, syncCalls, others, clears, lastClear, gets, lastGet>>

\* model.generate_content returns a reply, or raises.
ModelReturns(i, outcome) ==
    /\ tasks[i].pc = "generating"
    /\ IF outcome \in Replies
       THEN LET key == KeyOf(tasks[i].message.s)
                stored == lru_store(cache, key, outcome)
            IN  /\ cache' = stored
                /\ tasks' = [MarkDropped(tasks, stored) EXCEPT
                                 ![i] = generation_returned(env, tasks[i], outcome,
                                                            lru_find(cache, key) = 0)]
       ELSE /\ cache' = lru_raise(cache, KeyOf(tasks[i].message.s), outcome)
            /\ tasks' = [tasks EXCEPT ![i] = generation_failed(env, tasks[i], outcome)]
    /\ UNCHANGED <<env, posts, lastPost, syncCalls, others, clears, lastClear, gets, lastGet>>

\* The HTTP call of a running send_message ends.
HttpReturns(i, outcome) ==
    /\ tasks[i].pc = "http"
    /\ tasks' = [tasks EXCEPT ![i] = http_returns(env, tasks[i], outcome)]
    /\ UNCHANGED <<env, cache, posts, lastPost, syncCalls, others, clears, lastClear, gets, lastGet>>

\* The clear_cache maintenance task.
ClearCache ==
    /\ clears < MaxClears
    /\ clears' = clears + 1
    /\ \E r \in {clear_cache(cache)} :
           /\ cache' = r.cache
           /\ tasks' = MarkDropped(tasks, r.cache)
           /\ lastClear' = r.result
    /\ UNCHANGED <<env, posts, lastPost, syncCalls, others, gets, lastGet>>

\* generate_cached_response for a prompt of another conversation: a hit on
\* one of its entries, or a miss whose reply is stored.
OtherCall ==
    /\ others < MaxOther
    /\ others' = others + 1
    /\ \E c \in {lru_insert(cache, OtherKey, "other")}
               \cup {lru_touch(cache, j) : j \in {k \in 1..Len(cache) : cache[k].key = OtherKey}} :
          /\ cache' = c
          /\ tasks' = MarkDropped(tasks, c)
    /\ UNCHANGED <<env, posts, lastPost, syncCalls, clears, lastClear, gets, lastGet>>

ModelOutcomes == Replies \cup {"ServerError"}

\* One argument triple per platform shape, as Post dispatches them.
Dispatched(e) ==
    {r.task[1] : r \in {x \in {webhook_post(q.platform, q, e, TRUE) :
                                   q \in Requests(e, MessageBodies)} : x.task # <<>>}}

(***************************************************************************)
(* Spec: the pipeline.  The receiver dispatches up to MaxPosts tasks, the  *)
(* worker executes them; the requests are those of the platforms, the     *)
(* model answers every call it receives and the platform accepts every     *)
(* delivery (SpecReceiver has the other requests, SpecTask the failures).  *)
(***************************************************************************)
Next ==
    \/ posts < MaxPosts /\ \E request \in PlatformRequests(env, MessageBodies),
                               broker_up \in BOOLEAN : Post(request, broker_up)
    \/ \E i \in 1..Len(tasks) : StartTask(i)
    \/ \E i \in 1..Len(tasks), outcome \in Replies : ModelReturns(i, outcome)
    \/ \E i \in 1..Len(tasks) : HttpReturns(i, "ok")
    \/ ClearCache
    \/ OtherCall

Spec == Init /\ [][Next]_vars

(***************************************************************************)
(* SpecTask: one dispatched task through all its executions, with every    *)
(* outcome of the model and of the platform.                               *)
(***************************************************************************)
InitTask ==
    /\ env \in {e \in Envs : e.CELERY_ENABLED}
    /\ \E args \in Dispatched(env) : tasks = <<NewTask(args)>>
    /\ cache \in InitCaches
    /\ posts = 1
    /\ lastPost = NoPost
    /\ syncCalls = [model_calls |-> 0, deliveries |-> 0]
    /\ others = 0
    /\ clears = 0
    /\ lastClear = NoResult
    /\ gets = 0
    /\ lastGet = NoGet

NextTask ==
    \/ \E i \in 1..Len(tasks) : StartTask(i)
    \/ \E i \in 1..Len(tasks), outcome \in ModelOutcomes : ModelReturns(i, outcome)
    \/ \E i \in 1..Len(tasks), outcome \in HttpOutcomes : HttpReturns(i, outcome)
    \/ ClearCache
    \/ OtherCall

SpecTask == InitTask /\ [][NextTask]_vars

(***************************************************************************)
(* SpecFallback: one task whose generation fails in every execution, over  *)
(* messages that hold the keywords of the fallback matcher.                *)
(***************************************************************************)
FallbackMessages ==
    {Horario, Oi,
     <<"P", "R", "E", "Ç", "O">>,
     <<"t", "e", "m">>,
     <<"s", "i", "s", "t", "e", "m", "a">>,
     <<"a", "b", "e", "r", "t", "o", " ", "t", "e", "m">>,
     <<"a", "b", "e", "r", "t", "o", " ", "q", "u", "a", "n", "t", "o">>,
     <<"v", "a", "l", "o", "r", " ", "p", "r", "o", "d", "u", "t", "o">>,
     <<"d", "i", "s", "p", "o", "n", "í", "v", "e", "l">>,
     <<"f", "u", "n", "c", "i", "o", "n", "a", "m", "e", "n", "t", "o">>}

InitFallback ==
    /\ env \in {e \in Envs : e.CELERY_ENABLED}
    /\ \E platform \in {"whatsapp", "facebook"}, s \in FallbackMessages :
           tasks = <<NewTask([platform |-> platform, from_id |-> PyStr(Sender),
                              message |-> PyStr(s)])>>
    /\ cache = <<>>
    /\ posts = 1
    /\ lastPost = NoPost
    /\ syncCalls = [model_calls |-> 0, deliveries |-> 0]
    /\ others = 0
    /\ clears = 0
    /\ lastClear = NoResult
    /\ gets = 0
    /\ lastGet = NoGet

NextFallback ==
    \/ \E i \in 1..Len(tasks) : StartTask(i)
    \/ \E i \in 1..Len(tasks) : ModelReturns(i, "ServerError")
    \/ \E i \in 1..Len(tasks), outcome \in HttpOutcomes : HttpReturns(i, outcome)

SpecFallback == InitFallback /\ [][NextFallback]_vars

\* The worker keeps taking queued tasks and the calls it waits for end.
FairTask ==
    SpecTask /\ WF_vars(\E i \in 1..Len(tasks) : StartTask(i))
             /\ WF_vars(\E i \in 1..Len(tasks), outcome \in ModelOutcomes :
                           ModelReturns(i, outcome))
             /\ WF_vars(\E i \in 1..Len(tasks), outcome \in HttpOutcomes :
                           HttpReturns(i, outcome))

(***************************************************************************)
(* SpecReceiver: the receiver alone, over every body and header, for       *)
(* MaxReceived requests.                                                   *)
(***************************************************************************)
NextReceiver ==
    \/ posts + gets < MaxReceived
           /\ \E request \in Requests(env, MessageBodies \cup OtherBodies \cup BatchBodies
                                                \cup TypedBodies),
                 broker_up \in BOOLEAN : Post(request, broker_up)
    \/ \E platform \in Platforms, args \in QueryArgs : HandshakeGet(platform, args)

SpecReceiver == Init /\ [][NextReceiver]_vars

(***************************************************************************)
(* Properties of one task (SpecTask).                                      *)
(***************************************************************************)
Tasks == {tasks[i] : i \in 1..Len(tasks)}

\* C1 (as stated): a task whose every generation failed has called the
\* generator at most max_retries times.
C1_AtMostMaxRetriesGenerations ==
    \A t \in Tasks : ~t.genOK => t.genFails <= max_retries /\ t.modelCalls <= max_retries

\* C1 (amended): a task whose every generation failed calls the generator
\* once per execution, at most max_retries + 1 times; the keyword fallback is
\* sent once, exactly when the generation of the last execution
\* (retries = max_retries) has failed, and the task then only delivers it and
\* ends: the generator is not called a (max_retries + 2)-th time.
C1_FallbackAfterLastExecution ==
    \A t \in Tasks :
        ~t.genOK =>
            /\ t.genFails <= max_retries + 1
            /\ t.modelCalls <= max_retries + 1
            /\ t.fallbackSends = (IF t.genFails = max_retries + 1 THEN 1 ELSE 0)
            /\ t.genFails = max_retries + 1 =>
                   /\ t.retries = max_retries
                   /\ t.pc \in {"http", "done"}
                   /\ t.kind \in {"fallback", ""}
            /\ t.genFails <= max_retries => t.genFails \in {t.retries, t.retries + 1}

\* The model failed in all four executions, the fallback went out, the task
\* has ended.
C1_Witness ==
    \E t \in Tasks :
        /\ ~t.genOK /\ t.modelCalls = max_retries + 1 /\ t.genFails = max_retries + 1
        /\ t.fallbackSends = 1 /\ t.acks = 1 /\ t.pc = "done"

\* C2: after requests.post / raise_for_status raised HTTPError, send_message
\* returns False without another HTTP call: no HTTP call of the same
\* send_message call is running once an HTTPError was raised in it.
C2_NoRetryAfterHTTPError ==
    \A t \in Tasks : t.pc = "http" => t.lastExc # "HTTPError"

\* C3: an execution with retries = max_retries whose delivery of the reply
\* failed has sent error_msg through one send_message call when it ends.
C3_ErrorMessageAfterLastFailedDelivery ==
    \A t \in Tasks :
        (t.pc = "done" /\ t.retries = max_retries /\ t.lastSend = "failed")
            => t.errorSends = 1

\* C4: retries stays within 0..max_retries, and a task that has ended either
\* delivered a message or has used up its retries and sent a fallback (the
\* keyword fallback or error_msg).
C4_EndsDeliveredOrExhaustedWithFallback ==
    \A t \in Tasks :
        /\ t.retries \in 0..max_retries
        /\ t.pc = "done" =>
               \/ t.acks >= 1
               \/ t.retries = max_retries /\ t.fallbackSends + t.errorSends >= 1

\* C5 (as stated): once generate_cached_response has returned a reply to a
\* task, no later execution of the task calls the model.
C5_NoModelCallAfterGeneration ==
    \A t \in Tasks : t.callsAfterOK = 0

\* C5 (amended): a retried execution runs the whole task body again,
\* generate_cached_response included; it calls the model again only if the
\* cache has lost the entry of the prompt since the reply was generated.
C5_ModelCalledAgainOnlyAfterDrop ==
    \A t \in Tasks : t.callsAfterOK > 0 => t.dropped

\* The delivery failed after a generation by the model, the task ran again,
\* found its entry and ended with one model call and one delivery.
C5_Witness ==
    \E t \in Tasks :
        /\ t.genOK /\ t.retries >= 1 /\ t.modelCalls = 1 /\ t.callsAfterOK = 0
        /\ ~t.dropped /\ t.acks = 1 /\ t.pc = "done"

(***************************************************************************)
(* Properties of the receiver (SpecReceiver, and Spec for C8).             *)
(***************************************************************************)
Answered == lastPost.status # 0

\* The signature check of the last request, as the decorator makes it.
LastVerified ==
    verify_webhook_signature(lastPost.request,
                             SecretOf(env, lastPost.request.platform), env.debug)

\* What the extractor of the platform returns for the body of the last
\* request (nothing for a body that does not parse or is empty).
LastExtraction ==
    LET data == get_json(lastPost.request)
    IN  IF IsExc(data) \/ ~Truthy(data) THEN NoMessage
        ELSE extract_message_data(data, lastPost.request.platform)

LastYieldsMessage ==
    /\ LastExtraction.exc = ""
    /\ Truthy(LastExtraction.from_id)
    /\ Truthy(LastExtraction.message)

\* C6: a POST whose signature check fails is answered 403; every other POST
\* is answered "OK", 200, whatever the body, the extraction or the dispatch
\* does.
C6_Status403Or200 ==
    Answered =>
        IF LastVerified THEN lastPost.status = 200 /\ lastPost.body = "OK"
        ELSE lastPost.status = 403 /\ lastPost.enqueued = 0

\* A verified POST whose dispatch raised in the broker is answered 200.
C6_Witness ==
    /\ Answered /\ LastVerified /\ LastYieldsMessage
    /\ env.CELERY_ENABLED /\ ~lastPost.broker_up
    /\ lastPost.path = "error" /\ lastPost.status = 200

\* C7 (as stated): a verified POST enqueues exactly one task if and only if
\* the extraction yields a message, and is answered "OK", 200 either way.
C7_EnqueuedIffExtracted ==
    (Answered /\ LastVerified) =>
        /\ lastPost.enqueued = (IF LastYieldsMessage THEN 1 ELSE 0)
        /\ lastPost.status = 200 /\ lastPost.body = "OK"

\* C7 (amended): a verified POST enqueues exactly one task, carrying
\* (platform, from_id, message), if and only if the extraction yields a
\* sender and a message that are both non-empty, the message is a sequence
\* (it is sliced for the log), Celery was set up at start-up and the
\* dispatch does not raise; in every other case no task is enqueued.  The
\* answer is "OK", 200 in all of them.
C7_EnqueuedIffDispatched ==
    Answered =>
        /\ lastPost.enqueued =
               (IF /\ LastVerified /\ LastYieldsMessage
                   /\ LastExtraction.message.t \in {"str", "list"}
                   /\ env.CELERY_ENABLED /\ lastPost.broker_up
                THEN 1 ELSE 0)
        /\ lastPost.enqueued = 1 =>
               /\ tasks # <<>>
               /\ tasks[Len(tasks)] =
                      NewTask([platform |-> lastPost.request.platform,
                               from_id |-> LastExtraction.from_id,
                               message |-> LastExtraction.message])
        /\ LastVerified => lastPost.status = 200 /\ lastPost.body = "OK"

\* A verified WhatsApp POST with a text message was dispatched as one task.
C7_Witness ==
    /\ Answered /\ LastVerified /\ LastYieldsMessage
    /\ lastPost.request.platform = "whatsapp"
    /\ lastPost.path = "dispatched" /\ lastPost.enqueued = 1 /\ Len(tasks) = 1

\* C8: the receiver answers without a model call or a delivery call being
\* made for the message, with or without Celery: the step that answers a
\* POST makes no such call, leaves every task as it is, whatever call that
\* task is waiting for, and at most adds the task of the message to the
\* queue, where it waits with no call made.
C8_AnswerBeforeAnyCall ==
    [][posts' # posts =>
          /\ syncCalls' = NoCalls
          /\ cache' = cache
          /\ Len(tasks') \in {Len(tasks), Len(tasks) + 1}
          /\ \A i \in 1..Len(tasks') :
                 IF i <= Len(tasks) THEN tasks'[i] = tasks[i]
                 ELSE /\ tasks'[i].pc = "queued" /\ tasks'[i].modelCalls = 0
                      /\ tasks'[i].sendCalls = 0 /\ tasks'[i].acks = 0
                      /\ ~tasks'[i].genOK]_vars

\* A message was answered by the process whose Celery set-up had failed;
\* another message was answered while the model was generating for a task.
C8_Witness ==
    /\ Answered /\ LastYieldsMessage /\ lastPost.status = 200
    /\ \/ ~env.CELERY_ENABLED /\ lastPost.path = "sync" /\ tasks = <<>>
       \/ /\ lastPost.path = "dispatched" /\ Len(tasks) = 2
          /\ tasks[1].pc = "generating" /\ tasks[2].pc = "queued"

(***************************************************************************)
(* Properties of the response cache (Spec).                                *)
(***************************************************************************)
SamePrompt(t, u) ==
    /\ t.message.t = "str" /\ u.message.t = "str"
    /\ build(t.message.s, Knowledge) = build(u.message.s, Knowledge)

\* C9: when generate_cached_response has returned a reply that the cache
\* holds for a prompt, and the cache has not lost the entry since (no clear,
\* no eviction, whatever calls were made for other prompts), the next call
\* with the same prompt returns the identical reply and the model is not
\* called for it.
C9_SecondCallServedFromCache ==
    [][\A i, j \in 1..Len(tasks) :
          (/\ tasks[j].genOK /\ tasks[j].cached /\ ~tasks[j].dropped
           /\ SamePrompt(tasks[i], tasks[j])
           /\ tasks[i].pc = "queued" /\ tasks'[i].pc # "queued")
          => /\ tasks'[i].ai_reply = tasks[j].ai_reply
             /\ tasks'[i].modelCalls = tasks[i].modelCalls
             /\ tasks'[i].genOK /\ tasks'[i].cached]_vars

\* Two tasks with the same prompt: the model replied to the first, a call
\* for another prompt came in between, the second got the same reply with
\* no model call of its own.
C9_Witness ==
    /\ Len(tasks) = 2 /\ SamePrompt(tasks[1], tasks[2]) /\ others = 1
    /\ tasks[1].modelCalls = 1 /\ tasks[1].cached /\ ~tasks[1].dropped
    /\ tasks[2].modelCalls = 0 /\ tasks[2].genOK
    /\ tasks[2].ai_reply = tasks[1].ai_reply

\* C10: two calls of generate_cached_response with the same key do not both
\* have the model generating at the same time.
C10_OneModelCallPerKeyInFlight ==
    \A i, j \in 1..Len(tasks) :
        (i # j /\ SamePrompt(tasks[i], tasks[j]))
            => ~(tasks[i].pc = "generating" /\ tasks[j].pc = "generating")

\* The step is a hit: one entry moved to the most recently used end.
IsHitStep(before, after) ==
    \E k \in 1..Len(before) :
        after = lru_push(lru_remove(before, k), before[k].key, before[k].val)

\* The step stored entry e after a miss: appended when there is room, and in
\* place of the least recently used entry (the first one) when the cache is
\* full.
IsStoreStep(before, after, e) ==
    /\ \A k \in 1..Len(before) : before[k].key = e.key => e.key = OtherKey
    /\ after = IF CacheSize(before) < maxsize THEN lru_push(before, e.key, e.val)
               ELSE lru_push(lru_remove(before, 1), e.key, e.val)

\* C11: the cache never holds more than maxsize = 128 entries, and every
\* step that changes it is a clear, a hit that moves one entry to the most
\* recently used end, or a store after a miss that appends the new entry
\* and, at capacity, evicts exactly the least recently used entry.
C11_CapacityAndLruEviction ==
    [][/\ CacheSize(cache') <= maxsize
       /\ cache' # cache =>
              \/ cache' = <<>>
              \/ IsHitStep(cache, cache')
              \/ /\ cache' # <<>>
                 /\ IsStoreStep(cache, cache', cache'[Len(cache')])]_vars

\* A full cache whose least recently used entry was hit and moved to the
\* other end; the reply stored for another prompt then evicted the entry
\* that had become the oldest, and the entry that was hit is still there.
C11_Witness ==
    /\ CacheSize(cache) = maxsize /\ clears = 0 /\ Len(cache) = 3
    /\ cache[1].key = OtherKey /\ cache[1].n = maxsize - 2
    /\ cache[2].key = KeyOf(Oi) /\ cache[3].key = KeyOf(Horario)

C13_SendMessageRetries ==
    \A t \in Tasks :
            /\ t.sendCalls <= SEND_RETRY_LIMIT + 1
            /\ t.okCalls <= 1
            /\ t.pc = "http" => t.okCalls = 0 /\ t.sendCalls = t.retry_count + 1
            /\ t.lastSend = "ok" => t.okCalls = 1 /\ t.sendCalls >= 1
            /\ t.lastSend = "failed" =>
                   /\ t.okCalls = 0
                   /\ t.sendCalls \in {0, SEND_RETRY_LIMIT + 1}
                   /\ t.sendCalls = 0 =>
                          ~(IF t.platform = "whatsapp" THEN env.whatsapp_config
                            ELSE env.facebook_config)
            /\ t.error \notin {"ConnectionError", "Timeout"}

\* Three failed calls and a fourth that succeeded, after an execution whose
\* delivery failed on all four calls.
C13_Witness ==
    \E t \in Tasks :
        /\ t.lastSend = "ok" /\ t.sendCalls = SEND_RETRY_LIMIT + 1
        /\ t.okCalls = 1 /\ t.pc = "done"
        /\ t.retries = 1 /\ t.genFails = 0 /\ t.acks = 1


\* The secret the decorator checks the last request against.
LastSecret == SecretOf(env, lastPost.request.platform)

\* The decorator answered the last request itself: verification returned
\* False.
LastRejected ==
    /\ lastPost.status = 403 /\ lastPost.body = "Invalid signature"
    /\ lastPost.path = "rejected" /\ lastPost.enqueued = 0

\* C14 (as stated): a POST whose X-Hub-Signature-256 header is missing or
\* does not start with "sha256=" fails verification, whatever the secret
\* (the empty one included) and whatever the mode.
C14_MissingOrMalformedHeaderRejected ==
    (Answered /\ lastPost.request.header.scheme # "sha256=") => LastRejected

\* C14 (amended): a POST whose X-Hub-Signature-256 header is missing or does
\* not start with "sha256=" fails verification for every non-empty secret
\* in both modes and for the empty secret in production mode; with the
\* empty secret in debug mode it passes, the header not being looked at.
\* Verification answers True or False in every case (no 500).
C14_MissingOrMalformedHeaderRejectedUnlessDebugBypass ==
    (Answered /\ lastPost.request.header.scheme # "sha256=") =>
        IF LastSecret = "" /\ env.debug
        THEN lastPost.status = 200 /\ lastPost.path # "rejected"
        ELSE LastRejected

\* A header with the right digest of the body under the right secret and
\* the prefix "sha1=" is rejected.
C14_Witness ==
    /\ Answered /\ LastSecret # ""
    /\ lastPost.request.header.scheme = "sha1="
    /\ lastPost.request.header.sig = Hmac(LastSecret, lastPost.request.data)
    /\ lastPost.request.data \in MessageBodies
    /\ LastRejected

\* C15: with an empty secret for the platform, a POST passes verification
\* in debug mode, whatever its header, and in production mode it is answered
\* 403 and enqueues nothing, whatever its header.
C15_EmptySecretDebugBypassProductionClosed ==
    (Answered /\ LastSecret = "") =>
        IF env.debug
        THEN lastPost.status = 200 /\ lastPost.body = "OK"
        ELSE LastRejected /\ lastPost.args = NoArgs

\* In production a POST carrying the digest of its body under the empty key
\* is rejected.
C15_Witness ==
    /\ Answered /\ LastSecret = "" /\ ~env.debug
    /\ lastPost.request.header = Signed("", lastPost.request.data)
    /\ lastPost.request.data \in MessageBodies
    /\ LastRejected

\* C16: with a non-empty secret, a POST whose header is "sha256=" followed
\* by the digest of a body under that secret passes verification when that
\* body is the body of the request and fails it when the body differs.
C16_ValidSignatureAcceptedOtherBodyRejected ==
    \A b \in MessageBodies \cup OtherBodies :
        (/\ Answered /\ LastSecret # ""
         /\ lastPost.request.header = Signed(LastSecret, b))
        => IF b = lastPost.request.data
           THEN lastPost.status = 200 /\ lastPost.body = "OK"
           ELSE LastRejected

\* The signature of another body, sent with a body that holds a message, is
\* rejected.
C16_Witness ==
    /\ Answered /\ LastSecret # ""
    /\ lastPost.request.header = Signed(LastSecret, Body(None))
    /\ lastPost.request.data \in MessageBodies
    /\ LastRejected


\* C17: a GET is answered 200 with the value of hub.challenge when hub.mode
\* is "subscribe" and hub.verify_token is the verification token configured
\* for the platform of the route, and is answered 403 otherwise.
C17_ChallengeEchoedIffSubscribeAndTokenMatches ==
    gets > 0 =>
        LET configured == IF lastGet.platform = "whatsapp"
                          THEN env.VERIFY_TOKEN_WHATSAPP
                          ELSE env.VERIFY_TOKEN_FACEBOOK
        IN  IF /\ lastGet.args.mode = PyStr(<<"subscribe">>)
               /\ configured # None
               /\ lastGet.args.token = configured
            THEN lastGet.status = 200 /\ lastGet.body = lastGet.args.challenge
            ELSE lastGet.status = 403


\* Bodies that are well-formed JSON without a messages / messaging array.
UnexpectedBodies ==
    {Body(PyList(<<PyNum(1)>>)), Body(WaPayload(PyDict({}))),
     Body(PyDict({<<"entry", PyStr(<<"x">>)>>}))}

\* C18: for a body that is well-formed JSON without the entry / changes /
\* messages / messaging structure, extract_message_data returns
\* (None, None) and raises nothing.
C18_UnexpectedJsonYieldsNoMessage ==
    (/\ Answered /\ lastPost.path # "rejected"
     /\ lastPost.request.data \in UnexpectedBodies)
    => LastExtraction = NoMessage


\* C19: the text of every HTTP call of a delivery has at most
\* MAX_MESSAGE_LEN characters; a reply longer than that is sent as its
\* first MAX_MESSAGE_LEN - 3 characters followed by "...", a reply that is
\* not longer is sent as it is, and every retry inside one send_message
\* call sends the text of the call before it.
C19_TruncatedBeforeSendAndResentIdentical ==
    [][\A i \in 1..Len(tasks) :
           tasks'[i].pc = "http" =>
               /\ TextLen(tasks'[i].out) <= MAX_MESSAGE_LEN
               /\ tasks'[i].kind = "reply" =>
                      LET text == ReplyText(tasks'[i].ai_reply)
                      IN  IF TextLen(text) > MAX_MESSAGE_LEN
                          THEN tasks'[i].out = [body |-> text.body,
                                                kept |-> MAX_MESSAGE_LEN - 3,
                                                dots |-> TRUE]
                          ELSE tasks'[i].out = text
               /\ tasks[i].pc = "http" => tasks'[i].out = tasks[i].out]_vars

\* The third HTTP call of a delivery of the long reply carries the 4000
\* characters of the first.
C19_Witness ==
    \E t \in Tasks :
        /\ t.pc = "http" /\ t.kind = "reply" /\ t.ai_reply = "reply_b"
        /\ TextLen(ReplyText(t.ai_reply)) > MAX_MESSAGE_LEN
        /\ t.out.dots /\ TextLen(t.out) = MAX_MESSAGE_LEN
        /\ t.retry_count = 2 /\ t.sendCalls = 3


\* C20: the fallback sent for a message is decided by the keywords the
\* lower-cased message contains, the categories tried in the order price,
\* hours, product: a message with an hours keyword and no price keyword
\* gets the store-hours text whole, a message with a price keyword the
\* price text whatever else it contains, a message with a product keyword
\* and neither of the others the product text, and a message with no
\* keyword the generic text.
C20_FallbackByKeywordOrder ==
    \A t \in Tasks :
        (t.pc = "http" /\ t.kind = "fallback") =>
            LET m == lower(t.message.s)
                price == AnyIn(PriceWords, m)
                hours == AnyIn(HoursWords, m)
                product == AnyIn(ProductWords, m)
            IN  /\ price => t.out = Text("fallback_price", 187)
                /\ (hours /\ ~price) => t.out = Text("fallback_hours", 141)
                /\ (product /\ ~hours /\ ~price) => t.out = Text("fallback_product", 122)
                /\ (~product /\ ~hours /\ ~price) => t.out = Text("fallback_generic", 203)

\* "aberto quanto" holds an hours keyword and a price keyword: the price
\* text is sent after the last execution failed to generate.
C20_Witness ==
    \E t \in Tasks :
        /\ t.pc = "http" /\ t.kind = "fallback" /\ t.retries = max_retries
        /\ AnyIn(HoursWords, lower(t.message.s))
        /\ AnyIn(PriceWords, lower(t.message.s))
        /\ t.out = Text("fallback_price", 187)


\* C21: a worker process started without one of its required variables
\* (the AI API key, the outbound credentials of a platform) executes no
\* task: every task stays queued as it was dispatched.
C21_NoTaskExecutedWithMissingConfiguration ==
    ~validate_environment(env) =>
        \A t \in Tasks : t.pc = "queued" /\ t.retries = 0 /\ t.genFails = 0


\* What an event carries for the extractor: message.text, else
\* message.quick_reply.payload, else postback.payload, else nothing (None).
EventMessage(event) ==
    LET message == IF HasKey(event, "message") THEN Lookup(event, "message")
                   ELSE PyDict({})
        quick_reply == IF HasKey(message, "quick_reply")
                       THEN Lookup(message, "quick_reply") ELSE PyDict({})
        postback == IF HasKey(event, "postback") THEN Lookup(event, "postback")
                    ELSE PyDict({})
    IN  IF HasKey(message, "text") THEN Lookup(message, "text")
        ELSE IF HasKey(quick_reply, "payload") THEN Lookup(quick_reply, "payload")
        ELSE IF HasKey(postback, "payload") THEN Lookup(postback, "payload")
        ELSE None

\* The first event that carries something, with the id of its sender.
RECURSIVE FirstCarrying(_)
FirstCarrying(events) ==
    IF events = <<>> THEN NoMessage
    ELSE IF EventMessage(Head(events)) # None
    THEN Pair(Lookup(Lookup(Head(events), "sender"), "id"), EventMessage(Head(events)))
    ELSE FirstCarrying(Tail(events))

\* C22: on the Messenger routes the extraction returns the first event of
\* entry[0].messaging that carries message.text, message.quick_reply.payload
\* or postback.payload, with the sender id of that event; an event with a
\* quick_reply or postback that has no payload is passed over.
C22_FirstEventCarryingAMessage ==
    (/\ Answered /\ lastPost.path # "rejected"
     /\ lastPost.request.platform \in {"facebook", "instagram"}
     /\ lastPost.request.data \in BatchBodies)
    => LastExtraction =
           FirstCarrying(Lookup(Lookup(lastPost.request.data.json, "entry").l[1],
                                "messaging").l)


\* The type and the fields of the WhatsApp message of the last request.
LastWaMessage ==
    Lookup(Lookup(Lookup(Lookup(lastPost.request.data.json, "entry").l[1],
                         "changes").l[1], "value"), "messages").l[1]

LastIsTyped ==
    /\ Answered /\ lastPost.path # "rejected"
    /\ lastPost.request.platform = "whatsapp"
    /\ lastPost.request.data \in TypedBodies

\* The extraction of a typed WhatsApp message, with tags image and audio for
\* the two placeholders.
TypedExtraction(image, audio) ==
    LET m == LastWaMessage
        type == Lookup(m, "type").s[1]
    IN  CASE type = "text" ->
                 Pair(Lookup(m, "from"), Lookup(Lookup(m, "text"), "body"))
          [] type = "image" /\ HasKey(Lookup(m, "image"), "caption") ->
                 Pair(Lookup(m, "from"),
                      PyStr(image \o Lookup(Lookup(m, "image"), "caption").s))
          [] type = "audio" -> Pair(Lookup(m, "from"), PyStr(audio))
          [] OTHER -> NoMessage

\* C23 (as stated): a WhatsApp message of type image with a caption is
\* extracted as "[IMAGE] <caption>", one of type audio as "[AUDIO]", one of
\* type text as (from, text.body), any other as no message.
C23_PlaceholdersImageAndAudio ==
    LastIsTyped => LastExtraction = TypedExtraction(<<"[IMAGE] ">>, <<"[AUDIO]">>)

\* C23 (amended): a WhatsApp message of type image with a caption is
\* extracted as "[IMAGEM] <caption>", one of type audio as
\* "[ÁUDIO RECEBIDO]", one of type text as (from, text.body), any other
\* (an image without caption included) as no message.
C23_PlaceholdersImagemAndAudioRecebido ==
    LastIsTyped =>
        LastExtraction = TypedExtraction(<<"[IMAGEM] ">>, <<"[ÁUDIO RECEBIDO]">>)

\* An image with the caption "foto" was extracted and dispatched as
\* "[IMAGEM] foto".
C23_Witness ==
    /\ LastIsTyped /\ lastPost.enqueued = 1
    /\ Lookup(LastWaMessage, "type") = PyStr(<<"image">>)
    /\ lastPost.args.message = PyStr(<<"[IMAGEM] ">> \o Caption)


\* C24: an execution reports result['success'] = True only if its
\* send_message call for the reply returned True.
C24_SuccessOnlyAfterDelivery ==
    \A t \in Tasks : t.success => t.lastSend = "ok"


\* C25: over all executions of a task at most one send_message call returns
\* True, and from then on the task is done: it is not queued again, starts
\* no execution and makes no model call and no HTTP call.
C25_AtMostOneAcknowledgedDelivery ==
    [][\A i \in 1..Len(tasks) :
           /\ tasks'[i].acks <= 1
           /\ tasks[i].acks >= 1 =>
                  /\ tasks[i].pc = "done" /\ tasks'[i].pc = "done"
                  /\ tasks'[i].acks = tasks[i].acks
                  /\ tasks'[i].retries = tasks[i].retries
                  /\ tasks'[i].sendCalls = tasks[i].sendCalls
                  /\ tasks'[i].modelCalls = tasks[i].modelCalls]_vars

\* A task delivered in its third execution, at the second HTTP call, and
\* the cache cleared afterwards.
C25_Witness ==
    \E t \in Tasks :
        /\ t.acks = 1 /\ t.pc = "done" /\ t.retries = 2 /\ t.sendCalls = 2
        /\ t.success /\ clears = 1 /\ cache = <<>>


\* C26: a generate_cached_response call that raises leaves the cache as it
\* was, and the next execution of a task whose generation failed, started
\* while the cache holds no entry for its prompt and the model is
\* initialised, calls the model again.
C26_FailedGenerationNotCached ==
    [][\A i \in 1..Len(tasks) :
           /\ tasks'[i].genFails # tasks[i].genFails => cache' = cache
           /\ (/\ tasks[i].genFails > 0 /\ ~tasks[i].genOK /\ env.model
               /\ ~\E k \in 1..Len(cache) : cache[k].key = KeyOf(tasks[i].message.s)
               /\ tasks[i].pc = "queued" /\ tasks'[i].pc # "queued")
              => /\ tasks'[i].pc = "generating"
                 /\ tasks'[i].modelCalls = tasks[i].modelCalls + 1]_vars

\* The model is called a third time after two failed generations, the cache
\* still empty.
C26_Witness ==
    \E t \in Tasks :
        /\ t.genFails = 2 /\ t.retries = 2 /\ t.modelCalls = 3
        /\ t.pc = "generating" /\ ~t.genOK /\ cache = <<>> /\ clears = 0


\* The request carries the digest of its body under the secret of its
\* route, or the route has no secret and the application runs in debug
\* mode: the cases in which verification returns True.
CarriesValidSignature(q) ==
    IF SecretOf(env, q.platform) = "" THEN env.debug
    ELSE q.header = [scheme |-> "sha256=",
                     sig |-> [kind |-> "hex", key |-> SecretOf(env, q.platform),
                              body |-> q.data]]

\* C27: a task is published, or the synchronous stand-in called, only in
\* the step that answers a POST whose verification returned True; a POST
\* that fails verification is answered 403 and leaves the tasks, the calls
\* made and the cache as they were, and no other step creates a task.
C27_TasksOnlyFromVerifiedPosts ==
    [][IF posts' # posts
       THEN /\ (tasks' # tasks \/ syncCalls' # syncCalls \/ lastPost'.extracted)
                   => CarriesValidSignature(lastPost'.request)
            /\ ~CarriesValidSignature(lastPost'.request)
                   => /\ lastPost'.status = 403 /\ lastPost'.enqueued = 0
                      /\ tasks' = tasks /\ syncCalls' = syncCalls /\ cache' = cache
       ELSE Len(tasks') = Len(tasks) /\ syncCalls' = syncCalls]_vars

\* A POST with a message, signed with a guessed key, was answered 403 and
\* no task exists.
C27_Witness ==
    /\ Answered /\ lastPost.status = 403 /\ LastSecret # ""
    /\ lastPost.request.header = Signed("guess", lastPost.request.data)
    /\ lastPost.request.data \in MessageBodies
    /\ tasks = <<>> /\ syncCalls = NoCalls


\* C28: on a route whose verification token is not configured no GET is
\* answered 200: a GET with hub.mode = "subscribe" and without
\* hub.verify_token is answered 403.
C28_NoHandshakeWithoutConfiguredToken ==
    (/\ gets > 0 /\ lastGet.platform \in {"facebook", "instagram"}
     /\ env.VERIFY_TOKEN_FACEBOOK = None)
    => lastGet.status # 200 /\ (lastGet.args.token = None => lastGet.status = 403)


\* C29: the HTTP calls made for one task over all its executions number at
\* most (max_retries + 1) * (SEND_RETRY_LIMIT + 1), at most
\* SEND_RETRY_LIMIT + 1 for each execution so far; every send_message call
\* of the task body starts with retry_count = 0, and each retry inside it
\* adds one to retry_count and one HTTP call.
C29_HttpCallsBounded ==
    [][\A i \in 1..Len(tasks) :
           /\ tasks'[i].httpCalls <= (max_retries + 1) * (SEND_RETRY_LIMIT + 1)
           /\ tasks'[i].httpCalls <= (tasks'[i].retries + 1) * (SEND_RETRY_LIMIT + 1)
           /\ (tasks[i].pc # "http" /\ tasks'[i].pc = "http")
                  => /\ tasks'[i].retry_count = 0
                     /\ tasks'[i].httpCalls = tasks[i].httpCalls + 1
           /\ tasks'[i].httpCalls # tasks[i].httpCalls
                  => /\ tasks'[i].httpCalls = tasks[i].httpCalls + 1
                     /\ tasks'[i].pc = "http"
                     /\ tasks[i].pc = "http"
                            => /\ tasks'[i].retry_count = tasks[i].retry_count + 1
                               /\ tasks'[i].retry_count <= SEND_RETRY_LIMIT]_vars

\* The sixteenth HTTP call of a task: the fourth call of the fourth
\* execution, every delivery before having failed.
C29_Witness ==
    \E t \in Tasks :
        /\ t.httpCalls = (max_retries + 1) * (SEND_RETRY_LIMIT + 1)
        /\ t.pc = "http" /\ t.retries = max_retries
        /\ t.retry_count = SEND_RETRY_LIMIT /\ t.kind = "reply"

=============================================================================
